---------------------------- MODULE Spec2Model ----------------------------
(***************************************************************************)
(* A model of src/gluster.rs: the Gluster connection wrapper, its          *)
(* path/handle operations, the GlusterDirectory iterator, and the part of  *)
(* the native glfs_* layer those operations observe.                       *)
(*                                                                         *)
(* Strings are sequences of byte values.  A native capability (pointer)    *)
(* is a natural number, Null being the null pointer.  Every operation of   *)
(* gluster.rs is one action; the action records in `last` what the         *)
(* operation was given, the native calls it issued (in order) and what it  *)
(* returned.                                                               *)
(***************************************************************************)
EXTENDS Integers, Sequences, FiniteSets, TLC

VARIABLES
    ctx,        \* native contexts: [CtxIds -> [allocated, fini]]
    errno,      \* the last-error slot get_error reads, as the calling thread sees it
    glusters,   \* the live Gluster values, each [cluster_handle |-> h]
    xattr,      \* the volume: the extended attribute StrGood of file PathGood
    dir,        \* a GlusterDirectory and the native descriptor it holds
    arg,        \* the path a caller is about to hand to an operation
    thr,        \* threads in the middle of an operation, and their last-error slots
    last        \* the most recent operation: its inputs, native calls, result

vars == <<ctx, errno, glusters, xattr, dir, arg, thr, last>>

(***************************************************************************)
(* Bounds of the model.                                                    *)
(***************************************************************************)
MaxCtx == 2          \* native contexts glfs_new can hand out before it fails
MaxBuf == 2          \* largest capacity of a caller's fill buffer
MaxCount == 2        \* largest byte count a caller asks read for
MaxEntries == 2      \* most entries of the directory being iterated
MaxCalls == 4        \* most next() calls made on one GlusterDirectory
MaxPathLen == 3      \* longest path handed to the marshalling

(***************************************************************************)
(* Values.                                                                 *)
(***************************************************************************)
Null == 0
CtxIds == 1..MaxCtx
NUL == 0

\* errno values a failing native call may leave in the last-error slot
ENOENT == 2
ERANGE == 34
ENODATA == 61
ErrCodes == {ENOENT, ENODATA}

\* the capacity of the buffer the extended-attribute reads allocate
XattrCap == 1024

Absent == [present |-> FALSE, len |-> 0, byte |-> 0]

\* &str inputs (valid UTF-8): "v" and "v\0o"
StrGood == <<118>>
StrNul == <<118, NUL, 111>>
StrInputs == {StrGood, StrNul}
\* &Path inputs: "/a" and "/\0a"
PathGood == <<47, 97>>
PathNul == <<47, NUL, 97>>
PathInputs == {PathGood, PathNul}
\* *mut Struct_glfs_fd values a caller holds
FileHandles == {1}
Ports == {24007}

\* no GlusterDirectory has been made
NoDir == [made |-> FALSE, n |-> 0, pos |-> 0, open |-> FALSE, closes |-> 0,
          calls |-> 0, yielded |-> 0]

Threads == {1, 2}

\* a thread that is not inside an operation
Idle == [pc |-> "idle", op |-> "none", ret |-> 0, wrote |-> 0, crossed |-> FALSE]

\* one thread at a time: nobody is inside an operation
NoThreads == [shared |-> FALSE, slot |-> [t \in Threads |-> 0], th |-> [t \in Threads |-> Idle]]

NoOp == [op |-> "none", strs |-> <<>>, natives |-> <<>>, res |-> [tag |-> "none"]]

(***************************************************************************)
(* Error model.                                                            *)
(***************************************************************************)
\* get_error: format!("{}", errno())
get_error(e) == [text |-> "os error", code |-> e]

\* GlusterError::new(err) = GlusterError::Error(err)
GlusterErrorNew(msg) == [tag |-> "Error", msg |-> msg]

\* From<NulError>: what try!(CString::new(..)) returns on failure
FromNulError == [tag |-> "NulError"]

Ok(v) == [tag |-> "Ok", val |-> v]

(***************************************************************************)
(* String marshalling.                                                     *)
(***************************************************************************)
HasNul(s) == \E i \in 1..Len(s) : s[i] = NUL

\* CString::new(bytes): fails on any 0 byte, else the bytes plus a terminator
CStringNew(s) ==
    IF HasNul(s) THEN [ok |-> FALSE, bytes |-> <<>>]
    ELSE [ok |-> TRUE, bytes |-> Append(s, NUL)]

\* safe_get of the lossy decoder: the byte at i, or 0 past the end
ByteAt(s, i) == IF i <= Len(s) THEN s[i] ELSE 0

IsCont(b) == b >= 128 /\ b <= 191

\* The length of the well-formed UTF-8 scalar starting at s[i] (0 if none), and
\* the length of the maximal ill-formed prefix that one U+FFFD replaces.
Utf8Step(s, i) ==
    LET b0 == s[i]
        b1 == ByteAt(s, i + 1)
        b2 == ByteAt(s, i + 2)
        b3 == ByteAt(s, i + 3)
        second3 == \/ (b0 = 224 /\ b1 >= 160 /\ b1 <= 191)
                   \/ (b0 >= 225 /\ b0 <= 236 /\ IsCont(b1))
                   \/ (b0 = 237 /\ b1 >= 128 /\ b1 <= 159)
                   \/ (b0 >= 238 /\ b0 <= 239 /\ IsCont(b1))
        second4 == \/ (b0 = 240 /\ b1 >= 144 /\ b1 <= 191)
                   \/ (b0 >= 241 /\ b0 <= 243 /\ IsCont(b1))
                   \/ (b0 = 244 /\ b1 >= 128 /\ b1 <= 143)
    IN
    IF b0 < 128 THEN [valid |-> 1, bad |-> 0]
    ELSE IF b0 >= 194 /\ b0 <= 223
         THEN IF IsCont(b1) THEN [valid |-> 2, bad |-> 0] ELSE [valid |-> 0, bad |-> 1]
    ELSE IF b0 >= 224 /\ b0 <= 239
         THEN IF ~second3 THEN [valid |-> 0, bad |-> 1]
              ELSE IF ~IsCont(b2) THEN [valid |-> 0, bad |-> 2]
              ELSE [valid |-> 3, bad |-> 0]
    ELSE IF b0 >= 240 /\ b0 <= 244
         THEN IF ~second4 THEN [valid |-> 0, bad |-> 1]
              ELSE IF ~IsCont(b2) THEN [valid |-> 0, bad |-> 2]
              ELSE IF ~IsCont(b3) THEN [valid |-> 0, bad |-> 3]
              ELSE [valid |-> 4, bad |-> 0]
    ELSE [valid |-> 0, bad |-> 1]

\* U+FFFD REPLACEMENT CHARACTER in UTF-8
Replacement == <<239, 191, 189>>

RECURSIVE LossyFrom(_, _)
LossyFrom(s, i) ==
    IF i > Len(s) THEN <<>>
    ELSE LET st == Utf8Step(s, i) IN
         IF st.valid > 0
         THEN SubSeq(s, i, i + st.valid - 1) \o LossyFrom(s, i + st.valid)
         ELSE Replacement \o LossyFrom(s, i + st.bad)

\* a conversion that replaces every non-ASCII byte by '?'
ToStringLossyAscii(path) ==
    [i \in 1..Len(path) |-> IF path[i] < 128 THEN path[i] ELSE 63]

\* path.as_os_str().to_string_lossy(): the path's bytes with every ill-formed
\* UTF-8 sequence replaced by U+FFFD
ToStringLossy(path) == LossyFrom(path, 1)

\* try!(CString::new(path.as_os_str().to_string_lossy().as_ref()))
MarshalPath(path) == CStringNew(ToStringLossy(path))

\* try!(CString::new(name))
MarshalStr(name) == CStringNew(name)

MarshalOne(kind, s) == IF kind = "path" THEN MarshalPath(s) ELSE MarshalStr(s)

\* a preamble that checks only its first conversion
MarshalFirstOnly(kinds, inputs) ==
    LET cs == [i \in 1..Len(kinds) |-> MarshalOne(kinds[i], inputs[i])] IN
    [ok |-> Len(kinds) = 0 \/ cs[1].ok,
     cstrs |-> [i \in 1..Len(kinds) |-> cs[i].bytes]]

\* The try! preamble of an operation: the strings are converted in order and
\* the first failure returns; no native call lies between two conversions.
Marshal(kinds, inputs) ==
    LET cs == [i \in 1..Len(kinds) |-> MarshalOne(kinds[i], inputs[i])] IN
    [ok |-> \A i \in 1..Len(kinds) : cs[i].ok,
     cstrs |-> [i \in 1..Len(kinds) |-> cs[i].bytes]]

(***************************************************************************)
(* The native context layer, as gluster.rs drives it.                      *)
(***************************************************************************)
FreeCtx == {h \in CtxIds : ~ctx[h].allocated}

\* glfs_new: a fresh non-null context, or null (allocation failure)
glfs_new_results == {Null} \cup (IF FreeCtx = {} THEN {} ELSE {CHOOSE h \in FreeCtx : \A k \in FreeCtx : h <= k})

Allocate(c, h) == IF h = Null THEN c ELSE [c EXCEPT ![h].allocated = TRUE]

\* glfs_fini(h): one more release of context h
glfs_fini(c, h) == [c EXCEPT ![h].fini = @ + 1]

NativeCall(fn, args, ret) == [fn |-> fn, args |-> args, ret |-> ret]

(***************************************************************************)
(* impl Drop for Gluster                                                   *)
(***************************************************************************)
\* the native calls drop(&mut self) issues
DropCalls(g) ==
    IF g.cluster_handle = Null THEN <<>>
    ELSE <<NativeCall("glfs_fini", <<g.cluster_handle>>, 0)>>

DropEffect(c, g) ==
    IF g.cluster_handle = Null THEN c ELSE glfs_fini(c, g.cluster_handle)

\* A Gluster value goes out of scope.
Drop(g) ==
    /\ g \in glusters
    /\ glusters' = glusters \ {g}
    /\ ctx' = DropEffect(ctx, g)
    /\ last' = [op |-> "drop", strs |-> <<>>, self |-> g,
                natives |-> DropCalls(g), res |-> [tag |-> "unit"]]
    /\ UNCHANGED <<errno, xattr, dir, arg, thr>>

(***************************************************************************)
(* Gluster::connect                                                        *)
(***************************************************************************)
\* a connect that goes on to glfs_init after glfs_set_volfile_server failed
ConnectResultKeepsGoing(volume_name, server, port, natives, res) ==
    [op |-> "connect", strs |-> <<volume_name, server>>, port |-> port,
     natives |-> IF Len(natives) = 2 /\ natives[2].ret < 0
                 THEN Append(natives, NativeCall("glfs_init", <<natives[1].ret>>, -1))
                 ELSE natives,
     res |-> res]

ConnectResult(volume_name, server, port, natives, res) ==
    [op |-> "connect", strs |-> <<volume_name, server>>, port |-> port,
     natives |-> natives, res |-> res]

Connect(volume_name, server, port) ==
    /\ UNCHANGED <<dir, arg, thr>>
    /\ LET vol_name == CStringNew(volume_name)
           vol_transport == CStringNew(<<116, 99, 112>>)
           vol_host == CStringNew(server)
       IN
       IF ~vol_name.ok \/ ~vol_transport.ok \/ ~vol_host.ok
       THEN /\ last' = ConnectResult(volume_name, server, port, <<>>, FromNulError)
            /\ UNCHANGED <<ctx, errno, glusters, xattr>>
       ELSE \E cluster_handle \in glfs_new_results :
            LET new == NativeCall("glfs_new", <<vol_name.bytes>>, cluster_handle) IN
            IF cluster_handle = Null
            THEN /\ last' = ConnectResult(volume_name, server, port, <<new>>,
                                          GlusterErrorNew([text |-> "glfs_new failed", code |-> 0]))
                 /\ UNCHANGED <<ctx, errno, glusters, xattr>>
            ELSE
              \/ \E e \in ErrCodes :      \* glfs_set_volfile_server fails
                   /\ ctx' = Allocate(ctx, cluster_handle)
                   /\ errno' = e
                   /\ last' = ConnectResult(volume_name, server, port,
                         <<new, NativeCall("glfs_set_volfile_server",
                                 <<cluster_handle, vol_transport.bytes, vol_host.bytes, port>>, -1)>>,
                         GlusterErrorNew(get_error(e)))
                   /\ UNCHANGED <<glusters, xattr>>
              \/ \E e \in ErrCodes :      \* glfs_init fails
                   /\ ctx' = Allocate(ctx, cluster_handle)
                   /\ errno' = e
                   /\ last' = ConnectResult(volume_name, server, port,
                         <<new, NativeCall("glfs_set_volfile_server",
                                 <<cluster_handle, vol_transport.bytes, vol_host.bytes, port>>, 0),
                           NativeCall("glfs_init", <<cluster_handle>>, -1)>>,
                         GlusterErrorNew(get_error(e)))
                   /\ UNCHANGED <<glusters, xattr>>
              \/ /\ ctx' = Allocate(ctx, cluster_handle)
                 /\ glusters' = glusters \cup {[cluster_handle |-> cluster_handle]}
                 /\ last' = ConnectResult(volume_name, server, port,
                         <<new, NativeCall("glfs_set_volfile_server",
                                 <<cluster_handle, vol_transport.bytes, vol_host.bytes, port>>, 0),
                           NativeCall("glfs_init", <<cluster_handle>>, 0)>>,
                         Ok([kind |-> "gluster", cluster_handle |-> cluster_handle]))
                 /\ UNCHANGED <<errno, xattr, dir, arg, thr>>

(***************************************************************************)
(* Gluster::disconnect                                                     *)
(***************************************************************************)
\* disconnect(self): the body's glfs_fini, then `self` goes out of scope at
\* the end of the function, which runs Drop::drop on the same handle.
Disconnect(g) ==
    /\ g \in glusters
    /\ glusters' = glusters \ {g}
    /\ LET body == IF g.cluster_handle = Null THEN ctx
                   ELSE glfs_fini(ctx, g.cluster_handle)
           bodyCalls == IF g.cluster_handle = Null THEN <<>>
                        ELSE <<NativeCall("glfs_fini", <<g.cluster_handle>>, 0)>>
       IN /\ ctx' = DropEffect(body, g)
          /\ last' = [op |-> "disconnect", strs |-> <<>>, self |-> g,
                      natives |-> bodyCalls \o DropCalls(g),
                      res |-> [tag |-> "unit"]]
    /\ UNCHANGED <<errno, xattr, dir, arg, thr>>

(***************************************************************************)
(* The operations of impl Gluster that are one marshalling preamble, one   *)
(* native call and one classification of its result.  For each: the        *)
(* strings it converts (in the order of its try! lines), the order in      *)
(* which the native call takes them, whether the call is given             *)
(* self.cluster_handle and/or a file_handle, the native function, the test *)
(* applied to its result and what Ok carries.                              *)
(***************************************************************************)
Op(strs, argorder, self, handle, fn, check, val) ==
    [strs |-> strs, argorder |-> argorder, self |-> self, handle |-> handle,
     fn |-> fn, check |-> check, val |-> val]

PathOp(fn, check, val) == Op(<<"path">>, <<1>>, TRUE, FALSE, fn, check, val)
TwoPathOp(fn) == Op(<<"path", "path">>, <<1, 2>>, TRUE, FALSE, fn, "neg", "unit")
HandleOp(fn, val) == Op(<<>>, <<>>, FALSE, TRUE, fn, "neg", val)

OpTable ==
    [open      |-> PathOp("glfs_open", "none", "cap"),
     create    |-> PathOp("glfs_creat", "null", "cap"),
     close     |-> HandleOp("glfs_close", "unit"),
     write     |-> HandleOp("glfs_write", "int"),
     readv     |-> HandleOp("glfs_readv", "int"),
     writev    |-> HandleOp("glfs_writev", "int"),
     pread     |-> HandleOp("glfs_pread", "int"),
     pwrite    |-> HandleOp("glfs_pwrite", "int"),
     preadv    |-> HandleOp("glfs_preadv", "int"),
     pwritev   |-> HandleOp("glfs_pwritev", "int"),
     lseek     |-> HandleOp("glfs_lseek", "int"),
     truncate  |-> PathOp("glfs_truncate", "neg", "unit"),
     ftruncate |-> HandleOp("glfs_ftruncate", "unit"),
     lsstat    |-> PathOp("glfs_lstat", "neg", "stat"),
     stat      |-> PathOp("glfs_stat", "neg", "stat"),
     fstat     |-> HandleOp("glfs_fstat", "stat"),
     fsync     |-> HandleOp("glfs_fsync", "unit"),
     fdatasync |-> HandleOp("glfs_fdatasync", "unit"),
     access    |-> PathOp("glfs_access", "neg", "unit"),
     symlink   |-> TwoPathOp("glfs_symlink"),
     readlink  |-> PathOp("glfs_readlink", "neg", "unit"),
     mknod     |-> PathOp("glfs_mknod", "neg", "unit"),
     mkdir     |-> PathOp("glfs_mkdir", "neg", "unit"),
     unlink    |-> PathOp("glfs_unlink", "neg", "unit"),
     rmdir     |-> PathOp("glfs_rmdir", "neg", "unit"),
     rename    |-> TwoPathOp("glfs_rename"),
     link      |-> TwoPathOp("glfs_link"),
     opendir   |-> PathOp("glfs_opendir", "none", "cap"),
     fallocate |-> HandleOp("glfs_fallocate", "unit"),
     discard   |-> HandleOp("glfs_discard", "unit"),
     zerofill  |-> HandleOp("glfs_zerofill", "unit"),
     chdir     |-> PathOp("glfs_chdir", "neg", "unit"),
     fchdir    |-> HandleOp("glfs_fchdir", "unit"),
     dup       |-> Op(<<>>, <<>>, FALSE, TRUE, "glfs_dup", "none", "cap")]

OpNames == DOMAIN OpTable

\* create without its is_null test
CheckOfCreateUnchecked(op) == IF op = "create" THEN "none" ELSE OpTable[op].check

\* the test operation `op` applies to what its native call returned
CheckOf(op) == OpTable[op].check

InputSet(kind) == IF kind = "path" THEN PathInputs ELSE StrInputs

\* the strings a caller may hand an operation converting `kinds`
InputsFor(kinds) ==
    {f \in [1..Len(kinds) -> PathInputs \cup StrInputs] :
        \A i \in 1..Len(kinds) : f[i] \in InputSet(kinds[i])}

\* what a native call may answer: a result and, on failure, the errno it sets
CodeOutcomes ==
    {[ret |-> -1, failed |-> TRUE, err |-> e] : e \in ErrCodes}
        \cup {[ret |-> r, failed |-> FALSE, err |-> 0] : r \in {0, 1}}
CapOutcomes ==
    {[ret |-> Null, failed |-> TRUE, err |-> e] : e \in ErrCodes}
        \cup {[ret |-> 1, failed |-> FALSE, err |-> 0]}
NativeOutcomes(o) == IF o.val = "cap" THEN CapOutcomes ELSE CodeOutcomes

\* the last-error slot after a native call
SetErrno(old, out) == IF out.failed THEN out.err ELSE old

\* a test that lets negative result codes through
FailedOnlyNull(check, ret) == check = "null" /\ ret = Null

\* the test an operation applies to the native result: `ret_code < 0`,
\* `file_handle.is_null()`, or none at all
Failed(check, ret) ==
    CASE check = "neg" -> ret < 0
      [] check = "null" -> ret = Null
      [] OTHER -> FALSE

OkValue(val, ret) ==
    CASE val = "int" -> [kind |-> "int", n |-> ret]
      [] val = "cap" -> [kind |-> "cap", ptr |-> ret]
      [] OTHER -> [kind |-> val]

\* Err(GlusterError::new(get_error())) when the test fails, else Ok
Classify(check, val, ret, e) ==
    IF Failed(check, ret) THEN GlusterErrorNew(get_error(e))
    ELSE Ok(OkValue(val, ret))

NativeArgs(o, g, fh, cstrs) ==
    (IF o.self THEN <<g.cluster_handle>> ELSE <<>>)
        \o (IF o.handle THEN <<fh>> ELSE <<>>)
        \o [i \in 1..Len(o.argorder) |-> cstrs[o.argorder[i]]]

\* an operation that nulls the handle of the connection it borrowed
CallNullsHandle(g, op, inputs, fh) ==
    /\ g \in glusters
    /\ glusters' = (glusters \ {g}) \cup {[cluster_handle |-> Null]}
    /\ last' = [op |-> op, strs |-> inputs, natives |-> <<>>, res |-> FromNulError]
    /\ UNCHANGED <<ctx, errno, xattr, dir, arg, thr>>

Call(g, op, inputs, fh) ==
    LET o == OpTable[op]
        m == Marshal(o.strs, inputs)
    IN
    /\ g \in glusters
    /\ IF ~m.ok
       THEN /\ last' = [op |-> op, strs |-> inputs, natives |-> <<>>,
                        res |-> FromNulError]
            /\ UNCHANGED <<errno, xattr, dir, arg, thr>>
       ELSE \E out \in NativeOutcomes(o) :
            /\ errno' = SetErrno(errno, out)
            /\ last' = [op |-> op, strs |-> inputs,
                        natives |-> <<NativeCall(o.fn, NativeArgs(o, g, fh, m.cstrs), out.ret)>>,
                        res |-> Classify(CheckOf(op), o.val, out.ret, errno')]
    /\ UNCHANGED <<ctx, glusters, xattr, dir, arg, thr>>

(***************************************************************************)
(* Gluster::read                                                           *)
(***************************************************************************)
\* a Vec<u8> as read sees it: its length and its capacity
Buffers == {[len |-> l, cap |-> c] : l \in 0..MaxBuf, c \in 0..MaxBuf} \cap
           {b \in [len : 0..MaxBuf, cap : 0..MaxBuf] : b.len <= b.cap}

\* glfs_read(fd, buf, count, flags): a failure, or any number of bytes up to count
ReadOutcomes(count) ==
    {[ret |-> -1, failed |-> TRUE, err |-> e] : e \in ErrCodes}
        \cup {[ret |-> k, failed |-> FALSE, err |-> 0] : k \in 0..count}

\* a set_len that is left out
SetLenKept(buf, n) == buf

\* fill_buffer.set_len(read_size as usize)
SetLen(buf, n) == [buf EXCEPT !.len = n]

Read(g, file_handle, fill_buffer, count) ==
    /\ g \in glusters
    /\ \E out \in ReadOutcomes(count) :
        LET read_size == out.ret IN
        /\ errno' = SetErrno(errno, out)
        /\ last' = [op |-> "read", strs |-> <<>>,
                    natives |-> <<NativeCall("glfs_read",
                                     <<file_handle, fill_buffer.cap, count>>, read_size)>>,
                    before |-> fill_buffer,
                    after |-> IF read_size < 0 THEN fill_buffer
                              ELSE SetLen(fill_buffer, read_size),
                    res |-> IF read_size < 0 THEN GlusterErrorNew(get_error(errno'))
                            ELSE Ok([kind |-> "int", n |-> read_size])]
    /\ UNCHANGED <<ctx, glusters, xattr, dir, arg, thr>>

(***************************************************************************)
(* Gluster::pread and Gluster::pwrite: a slice and a count of its own.     *)
(***************************************************************************)
\* a &mut [u8] / &[u8] as the operation sees it: its length
Slices == {[len |-> l] : l \in 0..MaxBuf}

Pread(g, file_handle, fill_buffer, count) ==
    /\ g \in glusters
    /\ \E out \in ReadOutcomes(count) :
        LET read_size == out.ret IN
        /\ errno' = SetErrno(errno, out)
        /\ last' = [op |-> "pread", strs |-> <<>>,
                    natives |-> <<NativeCall("glfs_pread",
                                     <<file_handle, fill_buffer.len, count>>, read_size)>>,
                    res |-> IF read_size < 0 THEN GlusterErrorNew(get_error(errno'))
                            ELSE Ok([kind |-> "int", n |-> read_size])]
    /\ UNCHANGED <<ctx, glusters, xattr, dir, arg, thr>>

Pwrite(g, file_handle, buffer, count) ==
    /\ g \in glusters
    /\ \E out \in ReadOutcomes(count) :
        LET write_size == out.ret IN
        /\ errno' = SetErrno(errno, out)
        /\ last' = [op |-> "pwrite", strs |-> <<>>,
                    natives |-> <<NativeCall("glfs_pwrite",
                                     <<file_handle, buffer.len, count>>, write_size)>>,
                    res |-> IF write_size < 0 THEN GlusterErrorNew(get_error(errno'))
                            ELSE Ok([kind |-> "int", n |-> write_size])]
    /\ UNCHANGED <<ctx, glusters, xattr, dir, arg, thr>>

(***************************************************************************)
(* Extended attributes.                                                    *)
(***************************************************************************)
\* the native layer's side: one attribute of one file.  A value is `len`
\* copies of `byte`.
XValue(n, b) == [present |-> TRUE, len |-> n, byte |-> b]
XValues == {XValue(n, 97) : n \in {1, XattrCap, XattrCap + 1}}

\* what uninitialised buffer memory may hold
GarbageBytes == {0, 97}

\* glfs_getxattr / glfs_lgetxattr / glfs_fgetxattr(.., value, size): with
\* size 0 the call only reports the value's length; a buffer that is too
\* small is ERANGE; otherwise the value is copied and its length returned.
glfs_getxattr(store, size) ==
    IF ~store.present THEN [ret |-> -1, failed |-> TRUE, err |-> ENODATA, written |-> 0]
    ELSE IF size = 0 THEN [ret |-> store.len, failed |-> FALSE, err |-> 0, written |-> 0]
    ELSE IF size < store.len THEN [ret |-> -1, failed |-> TRUE, err |-> ERANGE, written |-> 0]
    ELSE [ret |-> store.len, failed |-> FALSE, err |-> 0, written |-> store.len]

\* glfs_listxattr / glfs_llistxattr / glfs_flistxattr: the same protocol over
\* the list of attribute names, each followed by a terminator
glfs_listxattr(store, size) ==
    LET n == IF store.present THEN Len(StrGood) + 1 ELSE 0 IN
    IF size = 0 THEN [ret |-> n, failed |-> FALSE, err |-> 0, written |-> 0]
    ELSE IF size < n THEN [ret |-> -1, failed |-> TRUE, err |-> ERANGE, written |-> 0]
    ELSE [ret |-> n, failed |-> FALSE, err |-> 0, written |-> n]

XattrGetTable ==
    [getxattr   |-> Op(<<"path", "name">>, <<1, 2>>, TRUE, FALSE, "glfs_getxattr", "neg", "text"),
     lgetxattr  |-> Op(<<"path", "name">>, <<1, 2>>, TRUE, FALSE, "glfs_lgetxattr", "neg", "text"),
     fgetxattr  |-> Op(<<"name">>, <<1>>, FALSE, TRUE, "glfs_fgetxattr", "neg", "text"),
     listxattr  |-> Op(<<"path">>, <<1>>, TRUE, FALSE, "glfs_listxattr", "neg", "text"),
     llistxattr |-> Op(<<"path">>, <<1>>, TRUE, FALSE, "glfs_llistxattr", "neg", "text"),
     flistxattr |-> Op(<<>>, <<>>, FALSE, TRUE, "glfs_flistxattr", "neg", "text")]

IsListOp(op) == op \in {"listxattr", "llistxattr", "flistxattr"}

\* Vec::with_capacity(1024)
VecWithCapacity(n) == [len |-> 0, cap |-> n]

\* the size argument of the native call: xattr_val_buff.len()
XattrSizeArg(xattr_val_buff) == xattr_val_buff.len

\* String::from_utf8_lossy(&xattr_val_buff) after set_len(ret_code): the first
\* `written` bytes are the native call's, the rest is whatever the
\* allocation held.
XattrText(store, out, garbage) ==
    [kind |-> "text", len |-> out.ret,
     byte |-> IF out.ret = 0 THEN 0
              ELSE IF out.written >= out.ret THEN store.byte ELSE garbage]

XattrGet(g, op, inputs, fh) ==
    LET o == XattrGetTable[op]
        m == Marshal(o.strs, inputs)
        xattr_val_buff == VecWithCapacity(XattrCap)
        size == XattrSizeArg(xattr_val_buff)
        out == IF IsListOp(op) THEN glfs_listxattr(xattr, size)
               ELSE glfs_getxattr(xattr, size)
    IN
    /\ g \in glusters
    /\ IF ~m.ok
       THEN /\ last' = [op |-> op, strs |-> inputs, natives |-> <<>>,
                        res |-> FromNulError]
            /\ UNCHANGED errno
       ELSE \E garbage \in (IF out.failed \/ out.written >= out.ret
                            THEN {0} ELSE GarbageBytes) :
            /\ errno' = SetErrno(errno, out)
            /\ last' = [op |-> op, strs |-> inputs,
                        natives |-> <<NativeCall(o.fn,
                            NativeArgs(o, g, fh, m.cstrs) \o <<xattr_val_buff.cap, size>>,
                            out.ret)>>,
                        buff |-> IF out.ret < 0 THEN xattr_val_buff
                                 ELSE SetLen(xattr_val_buff, out.ret),
                        res |-> IF out.ret < 0 THEN GlusterErrorNew(get_error(errno'))
                                ELSE Ok(XattrText(xattr, out, garbage))]
    /\ UNCHANGED <<ctx, glusters, xattr, dir, arg, thr>>

XattrSetTable ==
    [setxattr  |-> Op(<<"path", "name">>, <<1, 2>>, TRUE, FALSE, "glfs_setxattr", "neg", "unit"),
     lsetxattr |-> Op(<<"name", "path">>, <<2, 1>>, TRUE, FALSE, "glfs_lsetxattr", "neg", "unit"),
     fsetxattr |-> Op(<<"name">>, <<1>>, FALSE, TRUE, "glfs_fsetxattr", "neg", "unit")]

\* glfs_setxattr(.., value, size, flags): stores the value, or fails
SetOutcomes == {[ret |-> -1, failed |-> TRUE, err |-> e] : e \in ErrCodes}
                   \cup {[ret |-> 0, failed |-> FALSE, err |-> 0]}

XattrSet(g, op, inputs, value, flags, fh) ==
    LET o == XattrSetTable[op]
        m == Marshal(o.strs, inputs)
    IN
    /\ g \in glusters
    /\ IF ~m.ok
       THEN /\ last' = [op |-> op, strs |-> inputs, natives |-> <<>>,
                        res |-> FromNulError]
            /\ UNCHANGED <<errno, xattr, dir, arg, thr>>
       ELSE \E out \in SetOutcomes :
            /\ errno' = SetErrno(errno, out)
            /\ xattr' = IF out.failed THEN xattr ELSE value
            /\ last' = [op |-> op, strs |-> inputs, value |-> value,
                        natives |-> <<NativeCall(o.fn,
                            NativeArgs(o, g, fh, m.cstrs) \o <<value.len, flags>>,
                            out.ret)>>,
                        res |-> Classify(o.check, o.val, out.ret, errno')]
    /\ UNCHANGED <<ctx, glusters, dir, arg, thr>>

XattrRemoveTable ==
    [removexattr  |-> Op(<<"path", "name">>, <<1, 2>>, TRUE, FALSE, "glfs_removexattr", "neg", "unit"),
     lremovexattr |-> Op(<<"path", "name">>, <<1, 2>>, TRUE, FALSE, "glfs_lremovexattr", "neg", "unit"),
     fremovexattr |-> Op(<<"name">>, <<1>>, FALSE, TRUE, "glfs_fremovexattr", "neg", "unit")]

\* glfs_removexattr: removes the attribute; ENODATA when there is none
glfs_removexattr(store) ==
    IF store.present THEN [ret |-> 0, failed |-> FALSE, err |-> 0]
    ELSE [ret |-> -1, failed |-> TRUE, err |-> ENODATA]

XattrRemove(g, op, inputs, fh) ==
    LET o == XattrRemoveTable[op]
        m == Marshal(o.strs, inputs)
        out == glfs_removexattr(xattr)
    IN
    /\ g \in glusters
    /\ IF ~m.ok
       THEN /\ last' = [op |-> op, strs |-> inputs, natives |-> <<>>,
                        res |-> FromNulError]
            /\ UNCHANGED <<errno, xattr, dir, arg, thr>>
       ELSE /\ errno' = SetErrno(errno, out)
            /\ xattr' = IF out.failed THEN xattr ELSE Absent
            /\ last' = [op |-> op, strs |-> inputs,
                        natives |-> <<NativeCall(o.fn, NativeArgs(o, g, fh, m.cstrs), out.ret)>>,
                        res |-> Classify(o.check, o.val, out.ret, errno')]
    /\ UNCHANGED <<ctx, glusters, dir, arg, thr>>

(***************************************************************************)
(* Gluster::getcwd                                                         *)
(***************************************************************************)
\* Vec::with_capacity(1024) in getcwd
CwdCap == 1024

\* the volume's working directory: "/"
Cwd == <<47>>

\* glfs_getcwd(fs, buf, size): null with ERANGE when size cannot hold the
\* directory and its terminator; otherwise buf, or null for another failure
glfs_getcwd(size) ==
    IF size < Len(Cwd) + 1
    THEN {[ret |-> Null, failed |-> TRUE, err |-> ERANGE]}
    ELSE {[ret |-> Null, failed |-> TRUE, err |-> e] : e \in ErrCodes}
            \cup {[ret |-> 1, failed |-> FALSE, err |-> 0]}

\* Ok(CStr::from_ptr(cwd).to_string_lossy().into_owned()): reading through a
\* null pointer is undefined; the process is killed, or some bytes are decoded
CwdDecoded(cwd) ==
    IF cwd = Null
    THEN {[tag |-> "Abort"], Ok([kind |-> "string", text |-> <<63>>])}
    ELSE {Ok([kind |-> "string", text |-> ToStringLossy(Cwd)])}

Getcwd(g) ==
    /\ g \in glusters
    /\ LET cwd_val_buff == VecWithCapacity(CwdCap) IN
       \E out \in glfs_getcwd(cwd_val_buff.len) :
       \E res \in CwdDecoded(out.ret) :
         /\ errno' = SetErrno(errno, out)
         /\ last' = [op |-> "getcwd", strs |-> <<>>,
                     natives |-> <<NativeCall("glfs_getcwd",
                                      <<g.cluster_handle, cwd_val_buff.cap, cwd_val_buff.len>>,
                                      out.ret)>>,
                     res |-> res]
    /\ UNCHANGED <<ctx, glusters, xattr, dir, arg, thr>>

(***************************************************************************)
(* impl Iterator for GlusterDirectory                                      *)
(***************************************************************************)
\* let mut dirent: dirent = unsafe { zeroed() }
ZeroedDirent == [d_name |-> <<>>, d_ino |-> 0, d_type |-> 0]

\* record i of the directory: name "e<i>", inode i, type DT_REG
DirentOf(i) == [d_name |-> <<101, 48 + i>>, d_ino |-> i, d_type |-> 8]

\* what a read through a descriptor that was already closed may find
GarbageDirent == [d_name |-> <<63>>, d_ino |-> 0, d_type |-> 0]

ReaddirOutcome(ret, err, found, dirent) ==
    [ret |-> ret, failed |-> ret < 0, err |-> err, found |-> found, dirent |-> dirent]

\* glfs_readdir_r(fd, &mut dirent, &mut next_entry): a failure (negative);
\* or 0 with the next record copied and next_entry pointing at it; or, at the
\* end of the stream, 0 with next_entry null and dirent untouched.  On a
\* descriptor that was closed the call reads released memory: any of these.
glfs_readdir_r(d) ==
    LET failures == {ReaddirOutcome(-1, e, FALSE, ZeroedDirent) : e \in ErrCodes}
        eof == ReaddirOutcome(0, 0, FALSE, ZeroedDirent)
    IN
    IF d.open
    THEN failures \cup
         {IF d.pos < d.n THEN ReaddirOutcome(0, 0, TRUE, DirentOf(d.pos + 1)) ELSE eof}
    ELSE failures \cup {eof, ReaddirOutcome(0, 0, TRUE, GarbageDirent)}

\* DirEntry { path, inode, file_type } copied out of the dirent
DirEntryOf(dirent) ==
    [path |-> ToStringLossy(dirent.d_name), inode |-> dirent.d_ino,
     file_type |-> dirent.d_type]

ReaddirCall(out) ==
    [fn |-> "glfs_readdir_r", args |-> <<1>>, ret |-> out.ret,
     next_entry |-> IF out.found THEN 1 ELSE Null]

\* what next() does once glfs_readdir_r has answered: TRUE when it takes the
\* close-and-return-None branch
NextGivesUp(out) == out.ret < 0

GlusterDirectoryNext ==
    /\ dir.made
    /\ dir.calls < MaxCalls
    /\ \E out \in glfs_readdir_r(dir) :
        /\ errno' = SetErrno(errno, out)
        /\ IF NextGivesUp(out)
           THEN /\ dir' = [dir EXCEPT !.open = FALSE, !.closes = @ + 1, !.calls = @ + 1]
                /\ last' = [op |-> "next", strs |-> <<>>,
                            natives |-> <<ReaddirCall(out), NativeCall("glfs_closedir", <<1>>, 0)>>,
                            res |-> [tag |-> "None"]]
           ELSE /\ dir' = [dir EXCEPT !.pos = IF dir.open /\ out.found THEN @ + 1 ELSE @,
                                      !.calls = @ + 1, !.yielded = @ + 1]
                /\ last' = [op |-> "next", strs |-> <<>>,
                            natives |-> <<ReaddirCall(out), NativeCall("glfs_telldir", <<1>>, 0)>>,
                            res |-> [tag |-> "Some", val |-> DirEntryOf(out.dirent)]]
    /\ UNCHANGED <<ctx, glusters, xattr, arg, thr>>

(***************************************************************************)
(* Marshalling one path: open (which returns a capability) and truncate    *)
(* (which returns a code), applied to the caller's path `arg`.  The other  *)
(* one-path operations of OpTable share their preamble.                    *)
(***************************************************************************)
OnePathOps == {op \in OpNames : OpTable[op].strs = <<"path">>}

ArgOps == {"open", "truncate"} \cap OnePathOps

CallOnArg ==
    \E g \in glusters, op \in ArgOps, fh \in FileHandles : Call(g, op, <<arg>>, fh)

\* bytes a path may hold: NUL, '/', 'a', the two bytes of U+00E9, the three
\* bytes of U+20AC, and 0xFF
PathBytes == {NUL, 47, 97, 195, 169, 226, 130, 172, 255}

RECURSIVE SeqsUpTo(_, _)
SeqsUpTo(S, n) ==
    IF n = 0 THEN {<<>>}
    ELSE LET shorter == SeqsUpTo(S, n - 1) IN
         shorter \cup {Append(q, b) : q \in shorter, b \in S}

(***************************************************************************)
(* Two threads, each with a connection of its own (Gluster holds a raw     *)
(* pointer, so a value is not shared between threads).  An operation is    *)
(* two steps here: the native call returns, having written the last-error  *)
(* slot if it failed; then the operation tests the result and, on          *)
(* failure, calls get_error.  errno() reads the C library's errno: one     *)
(* slot per thread where the library keeps it per thread, one slot for the *)
(* whole process where it does not; thr.shared tells which.                *)
(***************************************************************************)
ThreadOps == {"close", "unlink"}

\* the slots after thread t's native call answered `out`
SlotWrite(t, out) ==
    IF ~out.failed THEN thr.slot
    ELSE IF thr.shared THEN [u \in Threads |-> out.err]
    ELSE [thr.slot EXCEPT ![t] = out.err]

\* a get_error that reads the slot of the other thread
ReadSlotOther(t) == thr.slot[CHOOSE u \in Threads : u # t]

\* errno() in thread t
ReadSlot(t) == thr.slot[t]

\* the native call of `op` returns in thread t
ThreadNativeCall(t, op) ==
    /\ thr.th[t].pc = "idle"
    /\ [cluster_handle |-> t] \in glusters
    /\ \E out \in NativeOutcomes(OpTable[op]) :
         /\ thr' = [thr EXCEPT
                !.slot = SlotWrite(t, out),
                !.th = [u \in Threads |->
                          IF u = t
                          THEN [pc |-> "returned", op |-> op, ret |-> out.ret,
                                wrote |-> IF out.failed THEN out.err ELSE 0,
                                crossed |-> FALSE]
                          ELSE IF thr.th[u].pc = "returned"
                               THEN [thr.th[u] EXCEPT !.crossed = TRUE]
                               ELSE thr.th[u]]]
         /\ errno' = SlotWrite(t, out)[1]
    /\ UNCHANGED <<ctx, glusters, xattr, dir, arg, last>>

\* thread t tests the result of its native call and returns
ThreadReturn(t) ==
    /\ thr.th[t].pc = "returned"
    /\ LET me == thr.th[t]
           o == OpTable[me.op]
           cstrs == [i \in 1..Len(o.strs) |-> Append(PathGood, NUL)]
       IN last' = [op |-> me.op, strs |-> [i \in 1..Len(o.strs) |-> PathGood],
                   thread |-> t,
                   natives |-> <<NativeCall(o.fn,
                                    NativeArgs(o, [cluster_handle |-> t], 1, cstrs), me.ret)>>,
                   wrote |-> me.wrote, crossed |-> me.crossed,
                   res |-> Classify(CheckOf(me.op), o.val, me.ret, ReadSlot(t))]
    /\ thr' = [thr EXCEPT !.th[t] = Idle]
    /\ UNCHANGED <<ctx, errno, glusters, xattr, dir, arg>>

(***************************************************************************)
(* Specifications.                                                         *)
(***************************************************************************)
Init ==
    /\ ctx = [h \in CtxIds |-> [allocated |-> FALSE, fini |-> 0]]
    /\ errno = 0
    /\ glusters = {}
    /\ xattr = Absent
    /\ dir = NoDir
    /\ arg = <<>>
    /\ thr = NoThreads
    /\ last = NoOp

NextConn ==
    \/ \E v \in StrInputs, s \in StrInputs, p \in Ports : Connect(v, s, p)
    \/ \E g \in glusters : Disconnect(g)
    \/ \E g \in glusters : Drop(g)

SpecConn == Init /\ [][NextConn]_vars

\* The state after Init and one successful connect("v", "v", 24007).
InitConnected ==
    /\ ctx = [h \in CtxIds |-> [allocated |-> h = 1, fini |-> 0]]
    /\ errno = 0
    /\ glusters = {[cluster_handle |-> 1]}
    /\ xattr = Absent
    /\ dir = NoDir
    /\ arg = <<>>
    /\ thr = NoThreads
    /\ last = ConnectResult(StrGood, StrGood, 24007,
                 <<NativeCall("glfs_new", <<Append(StrGood, NUL)>>, 1),
                   NativeCall("glfs_set_volfile_server",
                       <<1, <<116, 99, 112, NUL>>, Append(StrGood, NUL), 24007>>, 0),
                   NativeCall("glfs_init", <<1>>, 0)>>,
                 Ok([kind |-> "gluster", cluster_handle |-> 1]))

\* connect and the operations that are one native call
NextOps ==
    \/ \E v \in StrInputs, s \in StrInputs, p \in Ports : Connect(v, s, p)
    \/ \E g \in glusters, op \in OpNames, fh \in FileHandles :
         \E inputs \in InputsFor(OpTable[op].strs) : Call(g, op, inputs, fh)

SpecOps == Init /\ [][NextOps]_vars

XattrGetNext ==
    \E g \in glusters, op \in DOMAIN XattrGetTable, fh \in FileHandles :
        \E inputs \in InputsFor(XattrGetTable[op].strs) : XattrGet(g, op, inputs, fh)

XattrSetNext ==
    \E g \in glusters, op \in DOMAIN XattrSetTable, fh \in FileHandles :
        \E inputs \in InputsFor(XattrSetTable[op].strs), value \in XValues :
            XattrSet(g, op, inputs, value, 0, fh)

XattrRemoveNext ==
    \E g \in glusters, op \in DOMAIN XattrRemoveTable, fh \in FileHandles :
        \E inputs \in InputsFor(XattrRemoveTable[op].strs) : XattrRemove(g, op, inputs, fh)

\* the extended-attribute operations on an established connection
NextXattr == XattrGetNext \/ XattrSetNext \/ XattrRemoveNext

SpecXattr == InitConnected /\ [][NextXattr]_vars

\* read, pread and pwrite on an established connection
NextRead ==
    \/ \E g \in glusters, fh \in FileHandles, buf \in Buffers, count \in 0..MaxCount :
         Read(g, fh, buf, count)
    \/ \E g \in glusters, fh \in FileHandles, buf \in Slices, count \in 0..MaxCount :
         Pread(g, fh, buf, count)
    \/ \E g \in glusters, fh \in FileHandles, buf \in Slices, count \in 0..MaxCount :
         Pwrite(g, fh, buf, count)

SpecRead == InitConnected /\ [][NextRead]_vars

\* every operation that converts a string
StringOps == {op \in OpNames : OpTable[op].strs # <<>>}

NextStr ==
    \/ \E v \in StrInputs, s \in StrInputs, p \in Ports : Connect(v, s, p)
    \/ \E g \in glusters, op \in StringOps, fh \in FileHandles :
         \E inputs \in InputsFor(OpTable[op].strs) : Call(g, op, inputs, fh)
    \/ XattrGetNext
    \/ XattrSetNext
    \/ XattrRemoveNext

SpecStr == InitConnected /\ [][NextStr]_vars

\* A GlusterDirectory has been made of the descriptor opendir returned for a
\* directory of n entries.
InitDir ==
    /\ ctx = [h \in CtxIds |-> [allocated |-> h = 1, fini |-> 0]]
    /\ errno = 0
    /\ glusters = {[cluster_handle |-> 1]}
    /\ xattr = Absent
    /\ \E n \in 0..MaxEntries :
          dir = [made |-> TRUE, n |-> n, pos |-> 0, open |-> TRUE, closes |-> 0,
                 calls |-> 0, yielded |-> 0]
    /\ arg = <<>>
    /\ thr = NoThreads
    /\ last = [op |-> "opendir", strs |-> <<PathGood>>,
               natives |-> <<NativeCall("glfs_opendir", <<1, Append(PathGood, NUL)>>, 1)>>,
               res |-> Ok([kind |-> "cap", ptr |-> 1])]

NextDir == GlusterDirectoryNext

SpecDir == InitDir /\ [][NextDir]_vars

\* A connected caller holds some path.
InitMarshal ==
    /\ ctx = [h \in CtxIds |-> [allocated |-> h = 1, fini |-> 0]]
    /\ errno = 0
    /\ glusters = {[cluster_handle |-> 1]}
    /\ xattr = Absent
    /\ dir = NoDir
    /\ arg \in SeqsUpTo(PathBytes, MaxPathLen)
    /\ thr = NoThreads
    /\ last = NoOp

NextMarshal == CallOnArg

SpecMarshal == InitMarshal /\ [][NextMarshal]_vars

\* Each thread has connected.
InitThreads ==
    /\ ctx = [h \in CtxIds |-> [allocated |-> h \in Threads, fini |-> 0]]
    /\ errno = 0
    /\ glusters = {[cluster_handle |-> t] : t \in Threads}
    /\ xattr = Absent
    /\ dir = NoDir
    /\ arg = <<>>
    /\ \E shared \in BOOLEAN : thr = [NoThreads EXCEPT !.shared = shared]
    /\ last = NoOp

NextThreads ==
    \/ \E t \in Threads, op \in ThreadOps : ThreadNativeCall(t, op)
    \/ \E t \in Threads : ThreadReturn(t)

SpecThreads == InitThreads /\ [][NextThreads]_vars

\* the operations whose native call returns a pointer
PointerOps == {op \in OpNames : OpTable[op].val = "cap"}

\* connect, getcwd and the operations that return a capability
NextPtr ==
    \/ \E v \in StrInputs, s \in StrInputs, p \in Ports : Connect(v, s, p)
    \/ \E g \in glusters : Getcwd(g)
    \/ \E g \in glusters, op \in PointerOps, fh \in FileHandles :
         \E inputs \in InputsFor(OpTable[op].strs) : Call(g, op, inputs, fh)

SpecPtr == Init /\ [][NextPtr]_vars

(***************************************************************************)
(* Properties.                                                             *)
(***************************************************************************)
\* the size argument of a native call that takes a buffer and its size
SizeArg(call) == call.args[Len(call.args)]

\* C1: every context owned by a connection value is released (glfs_fini)
\* exactly once, whether the value ends by drop or by disconnect(self): no
\* context is ever released twice, and the context of a value that has just
\* ended has been released once.
C1_ReleasedExactlyOnce ==
    \A h \in CtxIds :
        /\ ctx[h].fini <= 1
        /\ (last.op \in {"drop", "disconnect"} /\ last.self.cluster_handle = h)
              => ctx[h].fini = 1

\* C2: when connect fails because endpoint configuration or initialisation
\* returned a negative code, it returns a generic operation error, no
\* connection value owns the context, and the context glfs_new returned has
\* been released by the time connect returns.
C2_FailedConnectReleasesContext ==
    (last.op = "connect" /\ \E i \in 1..Len(last.natives) : last.natives[i].ret < 0)
        => /\ last.res.tag = "Error"
           /\ \A g \in glusters : g.cluster_handle # last.natives[1].ret
           /\ ctx[last.natives[1].ret].fini = 1

\* C3: while the directory's descriptor has not been closed, the iterator
\* yields no more entries than the directory has, and a next() whose native
\* read reported the end of the stream (a non-negative code and no next
\* record) returns None.
C3_IterationYieldsNThenNone ==
    dir.closes = 0
        => /\ dir.yielded <= dir.n
           /\ (last.op = "next" /\ last.natives[1].ret >= 0
                 /\ last.natives[1].next_entry = Null) => last.res.tag = "None"

\* C4: an operation given a string with an interior terminator, in any of
\* its string positions, returns the NulError variant and issues no native
\* call.
C4_NulStringNoNativeCall ==
    (\E i \in 1..Len(last.strs) : HasNul(last.strs[i]))
        => (last.res = FromNulError /\ last.natives = <<>>)

C4_Witness ==
    /\ last.op \in {"rename", "setxattr"}
    /\ ~HasNul(last.strs[1])
    /\ HasNul(last.strs[2])
    /\ last.res = FromNulError

\* C5: getxattr hands the native call its buffer with the 1024-byte capacity
\* as the size; when the attribute holds a value (set by a successful
\* setxattr, no longer than the buffer) getxattr returns exactly that value,
\* and when it holds none (after removexattr) getxattr returns a generic
\* operation error.
C5_XattrRoundTrip ==
    (last.op = "getxattr" /\ last.natives # <<>>)
        => /\ (xattr.present /\ xattr.len <= XattrCap)
                 => /\ SizeArg(last.natives[1]) = XattrCap
                    /\ last.res = Ok([kind |-> "text", len |-> xattr.len, byte |-> xattr.byte])
           /\ ~xattr.present => last.res.tag = "Error"

\* C6: an extended-attribute read of a value longer than the 1024-byte
\* buffer returns a generic operation error, never Ok, and the result
\* buffer's length is never set above 1024.
C6_OversizeValueIsError ==
    (last.op \in DOMAIN XattrGetTable /\ last.natives # <<>>)
        => /\ (~IsListOp(last.op) /\ xattr.present /\ xattr.len > XattrCap)
                 => last.res.tag = "Error"
           /\ last.buff.len <= XattrCap

\* C7: a read whose native call returned k >= 0 returns k and leaves the fill
\* buffer's length at exactly k, whatever it was before; a failed read leaves
\* the length unchanged.
C7_ReadSetsLength ==
    last.op = "read"
        => LET k == last.natives[1].ret IN
           /\ k >= 0 => (last.res = Ok([kind |-> "int", n |-> k]) /\ last.after.len = k)
           /\ k < 0 => (last.res.tag = "Error" /\ last.after.len = last.before.len)

C7_Witness ==
    /\ last.op = "read"
    /\ last.natives[1].ret >= 0
    /\ last.natives[1].ret < last.natives[1].args[3]
    /\ last.before.len # last.natives[1].ret
    /\ last.after.len = last.natives[1].ret

\* C8: a path- or handle-based operation whose strings marshalled issues
\* exactly one native call; if that call returned a negative code the
\* operation returns Error with the message rendered from the last-error
\* slot, and it returns Ok only when the code is not negative.
C8_OneCallClassified ==
    (last.op \notin {"none", "connect", "drop", "disconnect"} /\ last.res.tag # "NulError")
        => /\ Len(last.natives) = 1
           /\ last.res.tag \in {"Ok", "Error"}
           /\ last.natives[1].ret < 0 => last.res = GlusterErrorNew(get_error(errno))
           /\ last.res.tag = "Ok" => last.natives[1].ret >= 0

C8_Witness ==
    /\ last.op = "lseek"
    /\ last.natives[1].ret < 0
    /\ last.res = GlusterErrorNew(get_error(ENODATA))

\* C9: create returns Error whenever the native call yields a null
\* capability, so a handle it returns is never null; open and opendir return
\* Ok with whatever capability the native call produced, null included.
C9_CreateChecksNullOpenDoesNot ==
    /\ (last.op = "create" /\ last.natives # <<>> /\ last.natives[1].ret = Null)
          => last.res.tag = "Error"
    /\ (last.op = "create" /\ last.res.tag = "Ok") => last.res.val.ptr # Null
    /\ (last.op \in {"open", "opendir"} /\ last.natives # <<>>)
          => last.res = Ok([kind |-> "cap", ptr |-> last.natives[1].ret])

C9_Witness ==
    /\ last.op \in {"open", "opendir"}
    /\ last.res = Ok([kind |-> "cap", ptr |-> Null])


\* the path bytes a one-path native call was handed
PathArg(call) == call.args[2]

RECURSIVE WellFormedFrom(_, _)
WellFormedFrom(s, i) ==
    \/ i > Len(s)
    \/ /\ Utf8Step(s, i).valid > 0
       /\ WellFormedFrom(s, i + Utf8Step(s, i).valid)

\* s is well-formed UTF-8
WellFormedUtf8(s) == WellFormedFrom(s, 1)

\* C10 as claimed: for every path without an interior terminator, well-formed
\* UTF-8 or not, marshalling succeeds and the native call is handed the
\* path's bytes followed by one terminator.
C10_MarshalByteIdentical ==
    (last.op \in ArgOps /\ ~HasNul(arg))
        => /\ last.natives # <<>>
           /\ PathArg(last.natives[1]) = Append(arg, NUL)

\* C10 amended: for every path without an interior terminator marshalling
\* succeeds; a path that is well-formed UTF-8 reaches the native call byte
\* for byte, followed by one terminator; a path that is not reaches it as
\* well-formed UTF-8 that differs from the input and holds U+FFFD where an
\* ill-formed sequence was, followed by one terminator.
C10_MarshalIdenticalIfWellFormed ==
    (last.op \in ArgOps /\ ~HasNul(arg))
        => /\ last.natives # <<>>
           /\ LET c == PathArg(last.natives[1])
                  b == SubSeq(c, 1, Len(c) - 1)
              IN /\ c[Len(c)] = NUL
                 /\ ~HasNul(b)
                 /\ WellFormedUtf8(arg) => b = arg
                 /\ ~WellFormedUtf8(arg)
                       => /\ WellFormedUtf8(b)
                          /\ b # arg
                          /\ \E i \in 1..Len(b) - 2 : SubSeq(b, i, i + 2) = Replacement

C10_Witness ==
    /\ last.op \in ArgOps
    /\ arg = <<47, 195, 169>>
    /\ last.natives # <<>>
    /\ PathArg(last.natives[1]) = <<47, 195, 169, NUL>>

\* C11: every existing Gluster value holds a non-null handle to a context
\* that glfs_new allocated, no two values hold the same context, and a connect
\* that returned Ok returned the non-null context its own glfs_new gave it;
\* this stays so across every operation that borrows a connection.
C11_ContextNonNull ==
    /\ \A g \in glusters :
          /\ g.cluster_handle # Null
          /\ g.cluster_handle \in CtxIds
          /\ ctx[g.cluster_handle].allocated
    /\ Cardinality(glusters) <= Cardinality({h \in CtxIds : ctx[h].allocated})
    /\ (last.op = "connect" /\ last.res.tag = "Ok")
          => /\ last.natives[1].fn = "glfs_new"
             /\ last.natives[1].ret # Null
             /\ last.res.val.cluster_handle = last.natives[1].ret
             /\ [cluster_handle |-> last.natives[1].ret] \in glusters

C11_Witness ==
    /\ Cardinality(glusters) = 2
    /\ last.op \in OpNames
    /\ last.natives # <<>>
    /\ \A g \in glusters : g.cluster_handle # Null

\* the order of connect's native steps
ConnectSteps == <<"glfs_new", "glfs_set_volfile_server", "glfs_init">>

\* native step i of a connect succeeded
StepOk(call) == IF call.fn = "glfs_new" THEN call.ret # Null ELSE call.ret >= 0

\* C12: the native calls of a connect are a prefix of glfs_new,
\* glfs_set_volfile_server, glfs_init, in that order, each later step given
\* the context glfs_new returned; every call but the last one succeeded; a
\* null glfs_new is the only call and gives Error("glfs_new failed"); a
\* negative glfs_set_volfile_server is the last call and gives the rendered
\* last error; a negative glfs_init gives the same; and Ok is returned exactly
\* when all three calls were made and succeeded.
C12_ConnectStepOrder ==
    (last.op = "connect" /\ last.natives # <<>>)
        => LET n == last.natives
               k == Len(n)
           IN /\ k <= 3
              /\ \A i \in 1..k : n[i].fn = ConnectSteps[i]
              /\ \A i \in 1..(k - 1) : StepOk(n[i])
              /\ \A i \in 2..k : n[i].args[1] = n[1].ret
              /\ ~StepOk(n[1])
                    => last.res = GlusterErrorNew([text |-> "glfs_new failed", code |-> 0])
              /\ (k >= 2 /\ ~StepOk(n[k]))
                    => last.res = GlusterErrorNew(get_error(errno))
              /\ last.res.tag = "Ok" <=> (k = 3 /\ StepOk(n[3]))
              /\ last.res.tag \in {"Ok", "Error"}

C12_Witness ==
    /\ last.op = "connect"
    /\ Len(last.natives) = 2
    /\ last.natives[2].fn = "glfs_set_volfile_server"
    /\ last.natives[2].ret < 0
    /\ last.res = GlusterErrorNew(get_error(errno))

\* the operation issued glfs_closedir
ClosedByLast == \E i \in 1..Len(last.natives) : last.natives[i].fn = "glfs_closedir"

\* C13: for a next() on a descriptor that was not closed before the call: if
\* the native read reported a failure (negative code) or the end of the
\* stream (no next record), the call closed the descriptor and returned None;
\* if the call returned an entry, it did not close the descriptor, which is
\* still open.
C13_NextClosesOnFailureOrEnd ==
    (last.op = "next" /\ (dir.closes = 0 \/ (dir.closes = 1 /\ ClosedByLast)))
        => LET rd == last.natives[1] IN
           /\ (rd.ret < 0 \/ rd.next_entry = Null)
                 => (ClosedByLast /\ ~dir.open /\ last.res.tag = "None")
           /\ last.res.tag = "Some" => (~ClosedByLast /\ dir.open)

\* C15: over any sequence of next() calls glfs_closedir is issued at most
\* once, and no next() issues glfs_readdir_r on a descriptor that an earlier
\* next() closed: once the descriptor has been closed, the call that closed
\* it is the last call that was made.
C15_ClosedAtMostOnce ==
    /\ dir.closes <= 1
    /\ (last.op = "next" /\ dir.closes >= 1) => ClosedByLast

\* C14 as claimed: an operation issues no native call after the one that
\* failed, and the message of a failed call is the last error that call
\* wrote, whether or not another thread's call ran in between and whether the
\* slot is per thread or one for the process.
C14_ErrorDescribesFailedCall ==
    last.op \in ThreadOps
        => /\ Len(last.natives) = 1
           /\ last.natives[1].ret < 0
                 => last.res = GlusterErrorNew(get_error(last.wrote))

\* C14 amended: an operation issues no native call after the one that failed;
\* the message of a failed call is the last error that call wrote when no
\* other thread's native call ran between the failing call and get_error
\* (every sequential execution), and also when the slot is per thread; with
\* one slot for the process and another thread's call in between, it is
\* whatever the slot then holds.
C14_ErrorDescribesFailedCallUnlessOverwritten ==
    last.op \in ThreadOps
        => /\ Len(last.natives) = 1
           /\ (last.natives[1].ret < 0 /\ (~last.crossed \/ ~thr.shared))
                 => last.res = GlusterErrorNew(get_error(last.wrote))
           /\ last.natives[1].ret < 0
                 => \E e \in ErrCodes : last.res = GlusterErrorNew(get_error(e))

C14_Witness ==
    /\ last.op \in ThreadOps
    /\ last.natives[1].ret < 0
    /\ last.crossed
    /\ ~thr.shared
    /\ \E u \in Threads \ {last.thread} : thr.slot[u] \notin {0, last.wrote}
    /\ last.res = GlusterErrorNew(get_error(last.wrote))

\* the extent of the buffer behind the pointer a native call was given, and
\* the byte count it was given with it
BufferArg(call) == call.args[2]
CountArg(call) == call.args[3]

\* C16: read, pread and pwrite hand the native call a byte count no larger
\* than the caller's buffer (the Vec's capacity for read, the slice's length
\* for pread and pwrite), and after a successful read the Vec's length is no
\* larger than its capacity.
C16_CountWithinBuffer ==
    last.op \in {"read", "pread", "pwrite"}
        => /\ CountArg(last.natives[1]) <= BufferArg(last.natives[1])
           /\ (last.op = "read" /\ last.res.tag = "Ok") => last.after.len <= last.after.cap

\* C17: getcwd gives the native call its buffer's 1024-byte capacity as the
\* size, and returns Err(GlusterError::Error) when the native call returned
\* null; dup never returns Ok with a null capability.
C17_GetcwdAndDupCheckNull ==
    /\ last.op = "getcwd"
          => /\ SizeArg(last.natives[1]) = CwdCap
             /\ last.natives[1].ret = Null => last.res.tag = "Error"
    /\ last.op = "dup"
          => ~(last.res.tag = "Ok" /\ last.res.val.ptr = Null)

=============================================================================
